---- MODULE Spec2Model ----
(***************************************************************************)
(* Jobs API: the five job controllers (src/app.js 109-161), the Job schema *)
(* they persist through (src/models/Job.js 3-25) and the error handler     *)
(* middleware that turns every thrown error into a response                *)
(* (src/app.js 190-213).                                                   *)
(*                                                                         *)
(* Every controller awaits exactly one store call, so one request is one   *)
(* step: the store call, the controller's own check of its result, and the *)
(* error handler when something was thrown.                                *)
(***************************************************************************)
EXTENDS Integers, Sequences, FiniteSets, TLC

VARIABLES
    jobs,      \* the jobs collection: _id -> document, or NoJob
    used,      \* the _ids that have ever been stored (a generated ObjectId is new)
    now,       \* the server clock (Date.now())
    creator,   \* history: _id -> the caller whose create request made the job
    born,      \* history: _id -> the server time of the create request that made it
    deleted,   \* history: the _ids a delete has answered 200 for
    resp,      \* the last request and the response it got
    header,    \* the Authorization header of the request being answered
    inflight,  \* the requests being handled at once: each one's position and answer
    thrown     \* the error object handed to the error handler (normalizer runs)

vars == <<jobs, used, now, creator, born, deleted, resp, header, inflight, thrown>>

----------------------------------------------------------------------------
\* Bounds of the model

\* ObjectIds the store hands out in one run
MaxJobs == 2
\* longest JSON array a create request carries as its body
MaxBatch == 2

----------------------------------------------------------------------------
\* Values

Users == {"u1", "u2"}

JobIds == 1..MaxJobs
\* an :id segment that is not ObjectId-shaped
MalformedId == 0
ParamIds == {MalformedId} \cup JobIds
IsObjectId(id) == id \in JobIds

\* a field the JSON body does not carry
Absent == "<absent>"
\* a createdBy value that is not ObjectId-shaped
MalformedRef == "notanid"
IsUserRef(v) == v \in Users

\* createdAt of a body: not supplied, or a date before the server started
NoDate == 0
EarlyDate == 1
StartTime == 2

\* http-status-codes
OK == 200
BAD_REQUEST == 400
NOT_FOUND == 404
INTERNAL_SERVER_ERROR == 500
UNAUTHORIZED == 401
DuplicateKeyCode == 11000

NoJob == [role |-> Absent, company |-> Absent, status |-> Absent,
          createdBy |-> Absent, createdAt |-> NoDate]

----------------------------------------------------------------------------
\* Request bodies (express.json(): a JSON object or a JSON array)

S10 == "aaaaaaaaaa"
S50 == S10 \o S10 \o S10 \o S10 \o S10
\* a role of 101 characters, a company of 51
RoleTooLong == S50 \o S50 \o "r"
CompanyTooLong == S50 \o "c"

\* the _id of a body: not supplied
NoId == 0

RoleInputs == {Absent, "dev", RoleTooLong}
CompanyInputs == {Absent, "acme", CompanyTooLong}
\* a field the body carries with the JSON value null
Null == "<null>"

StatusInputs == {Absent, "interview", "bogus", Null}
CreatedByInputs == {Absent, MalformedRef} \cup Users
CreatedAtInputs == {NoDate, EarlyDate}
IdInputs == {NoId} \cup JobIds

\* the fields of one JSON object that the schema knows (strict mode drops the rest)
BodyObjects == [role : RoleInputs, company : CompanyInputs, status : StatusInputs,
                createdBy : CreatedByInputs, createdAt : CreatedAtInputs,
                id : IdInputs]

NoFields == [role |-> Absent, company |-> Absent, status |-> Absent,
             createdBy |-> Absent, createdAt |-> NoDate, id |-> NoId]
PlainJob == [NoFields EXCEPT !.role = "dev", !.company = "acme"]

Fields == {"role", "company", "status", "createdBy", "createdAt", "id"}
\* how many fields of o differ from those of base
Deviations(o, base) == Cardinality({f \in Fields : o[f] # base[f]})
\* a body carries at most this many fields beyond (or short of) the usual ones
MaxDeviations == 2

\* PATCH bodies: at most MaxDeviations of the four writable fields
UpdateObjects == {o \in BodyObjects :
                    /\ o.createdAt = NoDate /\ o.id = NoId
                    /\ Deviations(o, NoFields) <= MaxDeviations}

\* POST bodies: the plain job { role, company } with at most MaxDeviations
\* fields missing, invalid or added
CreateObjects == {o \in BodyObjects : Deviations(o, PlainJob) <= MaxDeviations}

\* the elements the array bodies are made of
BatchObjects == {PlainJob, [PlainJob EXCEPT !.role = Absent]}
                    \cup {[PlainJob EXCEPT !.createdBy = u] : u \in Users}

SeqsUpTo(S, n) == UNION {[1..k -> S] : k \in 0..n}

ObjectBody(o) == [isArray |-> FALSE, docs |-> <<o>>]
ArrayBody(s) == [isArray |-> TRUE, docs |-> s]

CreateBodies == {ObjectBody(o) : o \in CreateObjects}
                    \cup {ArrayBody(s) : s \in SeqsUpTo(BatchObjects, MaxBatch)}
UpdateBodies == {ObjectBody(o) : o \in UpdateObjects}

\* the body of a request that sends none
EmptyBody == ObjectBody(NoFields)

----------------------------------------------------------------------------
\* Job schema (src/models/Job.js)

RoleMaxLength == 100
CompanyMaxLength == 50
StatusEnum == {"interview", "pending", "declined"}
StatusDefault == "pending"

\* required: [true, 'Please provide a role'], maxLength: 100
RoleErrors(v) ==
    IF v = Absent \/ v = "" THEN <<"Please provide a role">>
    ELSE IF Len(v) > RoleMaxLength
         THEN <<"Path role is longer than the maximum allowed length (100).">>
         ELSE << >>

\* required: [true, 'Please enter a company name'], maxLength: 50
CompanyErrors(v) ==
    IF v = Absent \/ v = "" THEN <<"Please enter a company name">>
    ELSE IF Len(v) > CompanyMaxLength
         THEN <<"Path company is longer than the maximum allowed length (50).">>
         ELSE << >>

\* enum: ['interview', 'pending', 'declined'].  Validators other than
\* required are not run on a missing value, and the enum validator lets
\* null through as the length validators do.
StatusErrors(v) ==
    IF v = Absent \/ v = Null \/ v \in StatusEnum THEN << >>
    ELSE <<v \o " is not a valid enum value for path status.">>

\* type: mongoose.ObjectId, required: [true, 'Please provide a user']
CreatedByErrors(v) ==
    IF v = Absent THEN <<"Please provide a user">>
    ELSE IF ~IsUserRef(v)
         THEN <<"Cast to ObjectId failed for value " \o v \o " at path createdBy">>
         ELSE << >>

\* default: 'pending' applies to a status the document does not carry (a
\* null is carried and kept);
\* timestamps: true stamps createdAt unless the document already has one
ApplyDefaults(o, t) ==
    [role |-> o.role, company |-> o.company,
     status |-> IF o.status = Absent THEN StatusDefault ELSE o.status,
     createdBy |-> o.createdBy,
     createdAt |-> IF o.createdAt = NoDate THEN t ELSE o.createdAt]

\* document validation on save: every path of the schema, in schema order
ValidateDocument(d) ==
    RoleErrors(d.role) \o CompanyErrors(d.company)
        \o StatusErrors(d.status) \o CreatedByErrors(d.createdBy)

\* update validators (runValidators: true): only the paths the update sets
ValidateUpdate(o) ==
    (IF o.role = Absent THEN << >> ELSE RoleErrors(o.role))
        \o (IF o.company = Absent THEN << >> ELSE CompanyErrors(o.company))
        \o StatusErrors(o.status)
        \o (IF o.createdBy = Absent THEN << >> ELSE CreatedByErrors(o.createdBy))

----------------------------------------------------------------------------
\* Error objects, as far as the error handler reads them:
\* statusCode (0: none), message (<< >>: ''), code (0: none), keyValue,
\* name, errors (the field-level messages), value

NoError == [statusCode |-> 0, message |-> << >>, code |-> 0, keyValue |-> << >>,
            name |-> "", errors |-> << >>, value |-> ""]

\* the custom API errors: the explicit-raise path sets statusCode
NotFoundError(message) ==
    [NoError EXCEPT !.statusCode = NOT_FOUND, !.message = message, !.name = "Error"]
BadRequestError(message) ==
    [NoError EXCEPT !.statusCode = BAD_REQUEST, !.message = message, !.name = "Error"]
UnauthenticatedError(message) ==
    [NoError EXCEPT !.statusCode = UNAUTHORIZED, !.message = message, !.name = "Error"]

\* Mongoose's CastError: { name: 'CastError', value, message, ... }
CastError(v) ==
    [NoError EXCEPT !.name = "CastError", !.value = v,
                    !.message = <<"Cast to ObjectId failed for value ", v>>]

\* Mongoose's ValidationError: { name: 'ValidationError', errors: {path: {message}}, ... }
ValidationError(errs) ==
    [NoError EXCEPT !.name = "ValidationError", !.errors = errs,
                    !.message = <<"Job validation failed">>]

RECURSIVE Join(_, _)
\* Array.prototype.join: the elements with the separator between them
Join(s, sep) ==
    IF Len(s) = 0 THEN << >>
    ELSE IF Len(s) = 1 THEN s
    ELSE <<Head(s), sep>> \o Join(Tail(s), sep)

GenericMsg == <<"Something went wrong, please try again later">>

\* errorHandlerMiddleware without its CastError rule
errorHandlerMiddleware_NoCastRule(err) ==
    LET status0 == IF err.statusCode # 0 THEN err.statusCode ELSE INTERNAL_SERVER_ERROR
        msg0 == IF err.message # << >> THEN err.message ELSE GenericMsg
        dup == err.code = DuplicateKeyCode
        val == err.name = "ValidationError"
    IN  [statusCode |-> IF val \/ dup THEN BAD_REQUEST ELSE status0,
         msg |-> IF val
                 THEN <<"Validation failed for user creation due to the following reasons: ">>
                          \o Join(err.errors, ", ")
                 ELSE IF dup
                 THEN <<"Duplicate value entered for the ">> \o Join(err.keyValue, ",")
                          \o <<" field. Please choose another value">>
                 ELSE msg0]

\* errorHandlerMiddleware: the defaults, then the three rules in turn, each
\* overwriting what came before; the response is res.status(..).json({ msg })
errorHandlerMiddleware(err) ==
    LET status0 == IF err.statusCode # 0 THEN err.statusCode ELSE INTERNAL_SERVER_ERROR
        msg0 == IF err.message # << >> THEN err.message ELSE GenericMsg
        dup == err.code = DuplicateKeyCode
        val == err.name = "ValidationError"
        cast == err.name = "CastError"
    IN  [statusCode |-> IF cast THEN NOT_FOUND
                        ELSE IF val \/ dup THEN BAD_REQUEST
                        ELSE status0,
         msg |-> IF cast THEN <<"No job found with an id of ", err.value>>
                 ELSE IF val
                 THEN <<"Validation failed for user creation due to the following reasons: ">>
                          \o Join(err.errors, ", ")
                 ELSE IF dup
                 THEN <<"Duplicate value entered for the ">> \o Join(err.keyValue, ",")
                          \o <<" field. Please choose another value">>
                 ELSE msg0]

----------------------------------------------------------------------------
\* The store and the responses

\* a stored document as a response body shows it
JobView(i, d) == [id |-> i, role |-> d.role, company |-> d.company,
                  status |-> d.status, createdBy |-> d.createdBy,
                  createdAt |-> d.createdAt]

\* the request, then res.status(statusCode) and the JSON body: msg for an
\* error, the job documents (and numOfJobs for the list) for a success
Response(op, user, id, body, statusCode, msg, out, numOfJobs) ==
    [op |-> op, user |-> user, id |-> id, body |-> body,
     statusCode |-> statusCode, msg |-> msg, out |-> out, numOfJobs |-> numOfJobs]

NoUser == "<none>"

\* no request is being answered
NoResponse == Response("none", NoUser, MalformedId, EmptyBody, 0, << >>, << >>, 0)

\* what a request that threw err is answered with
ErrorResponse(op, user, id, body, err) ==
    LET r == errorHandlerMiddleware(err)
    IN  Response(op, user, id, body, r.statusCode, r.msg, << >>, 0)

\* Job.findOne / findOneAndUpdate / findOneAndDelete filter { _id, createdBy }
\* evaluated against the documents of a collection
MatchesIn(store, id, userId) == store[id] # NoJob /\ store[id].createdBy = userId

\* the filter against the jobs collection as it is
Matches(id, userId) == MatchesIn(jobs, id, userId)

IsSortedBy(s) == \A i, j \in 1..Len(s) : i < j => s[i].createdAt <= s[j].createdAt

\* Job.find({ createdBy }).sort('createdAt'): the matching documents in
\* ascending createdAt; the store fixes no order among equal createdAt
FindSorted(userId) ==
    LET ids == {i \in JobIds : Matches(i, userId)}
        n == Cardinality(ids)
    IN  {s \in [1..n -> {JobView(i, jobs[i]) : i \in ids}] :
            /\ \A i \in ids : \E k \in 1..n : s[k].id = i
            /\ IsSortedBy(s)}

\* an update document applied to a stored one ($set of the schema's paths;
\* createdAt is not writable through an update)
ApplyUpdate(d, o) ==
    [role |-> IF o.role = Absent THEN d.role ELSE o.role,
     company |-> IF o.company = Absent THEN d.company ELSE o.company,
     status |-> IF o.status = Absent THEN d.status ELSE o.status,
     createdBy |-> IF o.createdBy = Absent THEN d.createdBy ELSE o.createdBy,
     createdAt |-> d.createdAt]

----------------------------------------------------------------------------
\* The Authorization header and the tokens it may carry

\* expiry times of the tokens: long past, one tick after the start, never
\* reached by the clock
LateDate == StartTime + MaxJobs + 1
TokenExpiries == {EarlyDate, StartTime + 1, LateDate}

\* a token the identity collaborator issued (createJWT: userId signed with
\* the shared secret, expiresIn) or one signed with another secret
Tokens == [userId : Users, signature : {"valid", "forged"}, exp : TokenExpiries]
NoToken == [userId |-> NoUser, signature |-> "none", exp |-> NoDate]
\* a credential that is no token at all
GarbageToken == [userId |-> NoUser, signature |-> "garbage", exp |-> NoDate]

\* the request carries no Authorization header
NoHeader == [scheme |-> "none", token |-> NoToken]
Headers == {NoHeader}
              \cup {[scheme |-> "Basic", token |-> t] : t \in {GarbageToken}}
              \cup {[scheme |-> "Bearer", token |-> t] : t \in Tokens \cup {GarbageToken}}

----------------------------------------------------------------------------
\* The controllers (src/app.js 109-161)

\* requests the server handles at once
MaxProcs == 3
Procs == 1..MaxProcs

\* a request slot no request has used: pc is the handler's position, at is
\* the place of its store command among the store commands executed (0: not
\* executed), answer is the response it ends in
Idle == [pc |-> "idle", op |-> "none", user |-> NoUser, id |-> MalformedId,
         body |-> EmptyBody, at |-> 0, answer |-> NoResponse]

\* GET /api/v1/jobs
getAllJobs(u) ==
    /\ resp = NoResponse
    /\ \E s \in FindSorted(u) :
          resp' = Response("list", u, MalformedId, EmptyBody, OK, << >>, s, Len(s))
    /\ UNCHANGED <<jobs, used, now, creator, born, deleted, thrown>>

\* getJob looking the job up by its _id alone and telling the caller when
\* it is somebody else's
getJobAnswer_ById(store, u, id) ==
    IF ~IsObjectId(id)
    THEN ErrorResponse("get", u, id, EmptyBody, CastError(ToString(id)))
    ELSE IF store[id] = NoJob
    THEN ErrorResponse("get", u, id, EmptyBody,
             NotFoundError(<<"No job with id ", ToString(id), " was found">>))
    ELSE IF store[id].createdBy # u
    THEN ErrorResponse("get", u, id, EmptyBody,
             UnauthenticatedError(<<"Not authorized to access this job">>))
    ELSE Response("get", u, id, EmptyBody, OK, << >>, <<JobView(id, store[id])>>, 0)

\* what getJob answers when the collection holds the documents of store
getJobAnswer(store, u, id) ==
    IF ~IsObjectId(id)
    THEN ErrorResponse("get", u, id, EmptyBody, CastError(ToString(id)))
    ELSE IF ~MatchesIn(store, id, u)
    THEN ErrorResponse("get", u, id, EmptyBody,
             NotFoundError(<<"No job with id ", ToString(id), " was found">>))
    ELSE Response("get", u, id, EmptyBody, OK, << >>, <<JobView(id, store[id])>>, 0)

\* GET /api/v1/jobs/:id
getJob(u, id) ==
    /\ resp = NoResponse
    /\ resp' = getJobAnswer(jobs, u, id)
    /\ UNCHANGED <<jobs, used, now, creator, born, deleted, thrown>>

\* the store's duplicate-key error: { code: 11000, keyValue: { _id: .. }, .. }
DuplicateKeyError ==
    [NoError EXCEPT !.code = DuplicateKeyCode, !.keyValue = <<"_id">>,
                    !.name = "MongoServerError",
                    !.message = <<"E11000 duplicate key error collection: jobs index: _id_">>]

\* req.body.createdBy = req.user.userId: a property of the parsed body, which
\* for a JSON array is a property of the array and of none of its elements
StampOwner(body, userId) ==
    IF body.isArray THEN body
    ELSE [body EXCEPT !.docs[1].createdBy = userId]

\* the k smallest _ids no document ever had, in ascending order
RECURSIVE FreshIds(_, _)
FreshIds(taken, k) ==
    IF k = 0 THEN << >>
    ELSE LET i == CHOOSE x \in JobIds \ taken : \A y \in JobIds \ taken : x <= y
         IN  <<i>> \o FreshIds(taken \cup {i}, k - 1)

\* POST /api/v1/jobs.  Job.create saves one document for an object and one
\* per element for an array, each validated and inserted on its own: the
\* documents that pass are stored even when another one fails, and the
\* request is answered with the error of a failing one.  A document keeps
\* the _id and the createdAt its body carries (an _id that is stored already
\* is the store's duplicate-key error); the documents of one request are
\* stamped with the same clock reading.
createJob(u, body) ==
    LET docs == StampOwner(body, u).docs
        n == Len(docs)
        doc(i) == ApplyDefaults(docs[i], now)
        errs(i) == ValidateDocument(doc(i))
        dup(i) == docs[i].id # NoId /\ jobs[docs[i].id] # NoJob
        fails == {i \in 1..n : errs(i) # << >> \/ dup(i)}
        saved == (1..n) \ fails
        generated == {i \in saved : docs[i].id = NoId}
        rank(i) == Cardinality({j \in generated : j <= i})
        fresh == FreshIds(used, Cardinality(generated))
        idOf(i) == IF docs[i].id # NoId THEN docs[i].id ELSE fresh[rank(i)]
        ids == {idOf(i) : i \in saved}
        holder(k) == CHOOSE i \in saved : idOf(i) = k
        views == [i \in 1..Cardinality(saved) |->
                    LET j == CHOOSE x \in saved : Cardinality({y \in saved : y <= x}) = i
                    IN  JobView(idOf(j), doc(j))]
    IN  /\ resp = NoResponse
        /\ Cardinality(generated) <= Cardinality(JobIds \ used)
        /\ saved # {} => now < StartTime + MaxJobs
        /\ jobs' = [k \in JobIds |-> IF k \in ids THEN doc(holder(k)) ELSE jobs[k]]
        /\ used' = used \cup ids
        /\ creator' = [k \in JobIds |-> IF k \in ids THEN u ELSE creator[k]]
        /\ born' = [k \in JobIds |-> IF k \in ids THEN now ELSE born[k]]
        /\ now' = IF saved # {} THEN now + 1 ELSE now
        /\ IF fails = {}
           THEN resp' = Response("create", u, MalformedId, body, OK, << >>, views, 0)
           ELSE \E i \in fails :
                  resp' = ErrorResponse("create", u, MalformedId, body,
                             IF errs(i) # << >> THEN ValidationError(errs(i))
                             ELSE DuplicateKeyError)
        /\ UNCHANGED <<deleted, thrown>>

\* the update reaches the store and its filter matches a document
updateJobFinds(store, u, id, body) ==
    LET o == body.docs[1]
    IN  /\ IsObjectId(id)
        /\ o.createdBy # Absent => IsUserRef(o.createdBy)
        /\ ValidateUpdate(o) = << >>
        /\ MatchesIn(store, id, u)

\* what updateJob answers when the collection holds the documents of store
updateJobAnswer(store, u, id, body) ==
    LET o == body.docs[1]
        castFails == ~IsObjectId(id)
        refFails == o.createdBy # Absent /\ ~IsUserRef(o.createdBy)
        errs == ValidateUpdate(o)
    IN  IF castFails
        THEN ErrorResponse("update", u, id, body, CastError(ToString(id)))
        ELSE IF refFails
        THEN ErrorResponse("update", u, id, body, CastError(o.createdBy))
        ELSE IF errs # << >>
        THEN ErrorResponse("update", u, id, body, ValidationError(errs))
        ELSE IF ~updateJobFinds(store, u, id, body)
        THEN ErrorResponse("update", u, id, body,
                 NotFoundError(<<"No job with id ", ToString(id), " was found">>))
        ELSE Response("update", u, id, body, OK, << >>,
                      <<JobView(id, ApplyUpdate(store[id], o))>>, 0)

\* findOneAndUpdate with upsert: true: a filter that matches no document
\* inserts one made of the filter and the update
findOneAndUpdate_Upsert(store, u, id, body) ==
    IF updateJobFinds(store, u, id, body)
    THEN [store EXCEPT ![id] = ApplyUpdate(@, body.docs[1])]
    ELSE IF IsObjectId(id)
    THEN [store EXCEPT ![id] =
            ApplyUpdate([NoJob EXCEPT !.createdBy = u, !.createdAt = StartTime],
                        body.docs[1])]
    ELSE store

\* the documents of the collection after the one find-and-modify command
\* of Job.findOneAndUpdate (no upsert: nothing changes without a match)
findOneAndUpdate(store, u, id, body) ==
    IF updateJobFinds(store, u, id, body)
    THEN [store EXCEPT ![id] = ApplyUpdate(@, body.docs[1])]
    ELSE store

\* PATCH /api/v1/jobs/:id.  findOneAndUpdate casts the filter, casts the
\* update, runs the update validators and only then sends the one
\* find-and-modify command to the store.  The body is a JSON object of the
\* schema's writable paths.
updateJob(u, id, body) ==
    /\ resp = NoResponse
    /\ jobs' = findOneAndUpdate(jobs, u, id, body)
    /\ resp' = updateJobAnswer(jobs, u, id, body)
    /\ UNCHANGED <<used, now, creator, born, deleted, thrown>>

\* what deleteJob answers when the collection holds the documents of store
deleteJobAnswer(store, u, id) ==
    IF ~IsObjectId(id)
    THEN ErrorResponse("delete", u, id, EmptyBody, CastError(ToString(id)))
    ELSE IF ~MatchesIn(store, id, u)
    THEN ErrorResponse("delete", u, id, EmptyBody,
             NotFoundError(<<"No job with id ", ToString(id), " was found">>))
    ELSE Response("delete", u, id, EmptyBody, OK, << >>, << >>, 0)

\* the documents of the collection after the one find-and-remove command
\* of Job.findOneAndDelete
findOneAndDelete(store, u, id) ==
    IF IsObjectId(id) /\ MatchesIn(store, id, u)
    THEN [store EXCEPT ![id] = NoJob]
    ELSE store

\* DELETE /api/v1/jobs/:id
deleteJob(u, id) ==
    LET found == IsObjectId(id) /\ Matches(id, u)
    IN  /\ resp = NoResponse
        /\ jobs' = findOneAndDelete(jobs, u, id)
        /\ deleted' = IF found THEN deleted \cup {id} ELSE deleted
        /\ resp' = deleteJobAnswer(jobs, u, id)
        /\ UNCHANGED <<used, now, creator, born, thrown>>

----------------------------------------------------------------------------
\* The job routes behind the authentication gate: any authenticated user may
\* send any request at any time

Init ==
    /\ jobs = [i \in JobIds |-> NoJob]
    /\ used = {}
    /\ now = StartTime
    /\ creator = [i \in JobIds |-> NoUser]
    /\ born = [i \in JobIds |-> NoDate]
    /\ deleted = {}
    /\ resp = NoResponse
    /\ header = NoHeader
    /\ inflight = [p \in Procs |-> Idle]
    /\ thrown = NoError

List ==
    /\ \E u \in Users : getAllJobs(u)
    /\ UNCHANGED <<header, inflight>>
Get ==
    /\ \E u \in Users, id \in ParamIds : getJob(u, id)
    /\ UNCHANGED <<header, inflight>>
Create ==
    /\ \E u \in Users, body \in CreateBodies : createJob(u, body)
    /\ UNCHANGED <<header, inflight>>
Update ==
    /\ \E u \in Users, id \in ParamIds, body \in UpdateBodies : updateJob(u, id, body)
    /\ UNCHANGED <<header, inflight>>
Delete ==
    /\ \E u \in Users, id \in ParamIds : deleteJob(u, id)
    /\ UNCHANGED <<header, inflight>>

\* the response has gone out; the server takes the next request
EndRequest ==
    /\ resp # NoResponse
    /\ resp' = NoResponse
    /\ header' = NoHeader
    /\ UNCHANGED <<jobs, used, now, creator, born, deleted, inflight, thrown>>

Next == List \/ Get \/ Create \/ Update \/ Delete \/ EndRequest

Spec == Init /\ [][Next]_vars

----------------------------------------------------------------------------
\* The job routes with the authentication gate in front of them:
\* app.use('/api/v1/jobs', authenticateUser, jobsRouter).  Anyone may send
\* any request with any Authorization header.

\* the credential is a bearer token whose signature verifies against the
\* shared secret and whose expiry the clock has not reached
Authentic(h, t) ==
    /\ h.scheme = "Bearer"
    /\ h.token.signature = "valid"
    /\ t < h.token.exp

\* the authentication gate: a request whose credential is absent, malformed,
\* invalid or expired is answered through the error handler with
\* Unauthenticated and goes no further; otherwise the caller identity of the
\* token is attached to the request (req.user) and the matched route runs
authenticateUser(h, op, id, body) ==
    /\ resp = NoResponse
    /\ header' = h
    /\ UNCHANGED inflight
    /\ IF Authentic(h, now)
       THEN TRUE
       ELSE /\ resp' = ErrorResponse(op, NoUser, id, body,
                          UnauthenticatedError(<<"Authentication invalid">>))
            /\ UNCHANGED <<jobs, used, now, creator, born, deleted, thrown>>

\* next(): the route runs when the gate has let the request through
Passed(h, route) == IF Authentic(h, now) THEN route ELSE TRUE

\* the bodies sent through the gate (the gate reads none of them)
GateCreateBodies == {ObjectBody(PlainJob), ArrayBody(<<PlainJob>>)}
GateUpdateBodies == {ObjectBody([NoFields EXCEPT !.status = "declined"]),
                     ObjectBody([NoFields EXCEPT !.role = "engineer"])}

GatedList ==
    \E h \in Headers :
        /\ authenticateUser(h, "list", MalformedId, EmptyBody)
        /\ Passed(h, getAllJobs(h.token.userId))
GatedGet ==
    \E h \in Headers, id \in ParamIds :
        /\ authenticateUser(h, "get", id, EmptyBody)
        /\ Passed(h, getJob(h.token.userId, id))
GatedCreate ==
    \E h \in Headers, body \in GateCreateBodies :
        /\ authenticateUser(h, "create", MalformedId, body)
        /\ Passed(h, createJob(h.token.userId, body))
GatedUpdate ==
    \E h \in Headers, id \in ParamIds, body \in GateUpdateBodies :
        /\ authenticateUser(h, "update", id, body)
        /\ Passed(h, updateJob(h.token.userId, id, body))

\* the delete route mounted without the gate: the handler runs with
\* whatever identity the credential names
GatedDelete_NoGate ==
    \E h \in Headers, id \in ParamIds :
        /\ header' = h
        /\ UNCHANGED inflight
        /\ deleteJob(h.token.userId, id)

GatedDelete ==
    \E h \in Headers, id \in ParamIds :
        /\ authenticateUser(h, "delete", id, EmptyBody)
        /\ Passed(h, deleteJob(h.token.userId, id))

NextGate == GatedList \/ GatedGet \/ GatedCreate \/ GatedUpdate \/ GatedDelete
                \/ EndRequest

SpecGate == Init /\ [][NextGate]_vars

----------------------------------------------------------------------------
\* Update and delete requests handled at once.  A handler runs to its one
\* await, the store executes the command it sent as one step at some later
\* time, and the handler resumes with the result and answers.

\* the update bodies of the concurrent requests
ConcUpdateBodies == {ObjectBody([NoFields EXCEPT !.status = "declined"])}
                        \cup {ObjectBody([NoFields EXCEPT !.createdBy = u]) : u \in Users}

\* the store commands executed so far
Executed == Cardinality({p \in Procs : inflight[p].at > 0})

\* updateJob / deleteJob up to the await: the command is on its way.  The
\* requests are those of a stored job's owner on that job; the slots are
\* taken in order.
Receive(p, op, u, id, body) ==
    /\ inflight[p].pc = "idle"
    /\ \A q \in Procs : q < p => inflight[q].pc # "idle"
    /\ Matches(id, u)
    /\ inflight' = [inflight EXCEPT ![p] =
                        [Idle EXCEPT !.pc = "awaiting", !.op = op, !.user = u,
                                     !.id = id, !.body = body]]
    /\ UNCHANGED <<jobs, used, now, creator, born, deleted, resp, header, thrown>>

ReceiveUpdate ==
    \E p \in Procs, u \in Users, id \in JobIds, body \in ConcUpdateBodies :
        Receive(p, "update", u, id, body)
ReceiveDelete ==
    \E p \in Procs, u \in Users, id \in JobIds :
        Receive(p, "delete", u, id, EmptyBody)

\* the store executes the command of request p: findOneAndUpdate or
\* findOneAndDelete, each one find-and-modify on the collection; its result
\* (the document or null) decides the answer
StoreStep(p) ==
    LET r == inflight[p]
        found == IsObjectId(r.id) /\ Matches(r.id, r.user)
    IN  /\ r.pc = "awaiting"
        /\ jobs' = IF r.op = "update"
                   THEN findOneAndUpdate(jobs, r.user, r.id, r.body)
                   ELSE findOneAndDelete(jobs, r.user, r.id)
        /\ deleted' = IF r.op = "delete" /\ found THEN deleted \cup {r.id} ELSE deleted
        /\ inflight' = [inflight EXCEPT ![p] =
                            [r EXCEPT !.pc = "resumed", !.at = Executed + 1,
                                      !.answer = IF r.op = "update"
                                                 THEN updateJobAnswer(jobs, r.user, r.id, r.body)
                                                 ELSE deleteJobAnswer(jobs, r.user, r.id)]]
        /\ UNCHANGED <<used, now, creator, born, resp, header, thrown>>

Execute == \E p \in Procs : StoreStep(p)

\* the handler resumes after its await: throw NotFoundError on null, else
\* res.status(OK).json(..); the response goes out
Respond ==
    \E p \in Procs :
        /\ inflight[p].pc = "resumed"
        /\ inflight' = [inflight EXCEPT ![p].pc = "done"]
        /\ UNCHANGED <<jobs, used, now, creator, born, deleted, resp, header, thrown>>

\* jobs come to be through create requests of the usual body
ConcCreate ==
    /\ \E u \in Users : createJob(u, ObjectBody(PlainJob))
    /\ UNCHANGED <<header, inflight>>

NextConc == ConcCreate \/ EndRequest \/ ReceiveUpdate \/ ReceiveDelete
                \/ Execute \/ Respond

SpecConc == Init /\ [][NextConc]_vars

----------------------------------------------------------------------------
\* The error handler on its own: any error object a request may throw

ErrorInputs ==
    [statusCode : {0, BAD_REQUEST, UNAUTHORIZED, NOT_FOUND},
     message : {<< >>, <<"connect ECONNREFUSED 127.0.0.1:27017">>},
     code : {0, DuplicateKeyCode},
     keyValue : {<<"email">>},
     name : {"Error", "ValidationError", "CastError"},
     errors : {<<"Please provide a role">>,
               <<"Please provide a role", "Please enter a company name">>},
     value : {"", "67d4cc1feb66701a1bb454bee"}]

InitError ==
    /\ Init
    /\ thrown' \in ErrorInputs
    /\ UNCHANGED <<jobs, used, now, creator, born, deleted, resp, header, inflight>>

\* app.use(errorHandlerMiddleware): the thrown error is answered
HandleError ==
    /\ thrown # NoError
    /\ resp = NoResponse
    /\ resp' = ErrorResponse("error", NoUser, MalformedId, EmptyBody, thrown)
    /\ UNCHANGED <<jobs, used, now, creator, born, deleted, header, inflight, thrown>>

\* the response has gone out and the next request throws
NextError ==
    /\ resp # NoResponse
    /\ resp' = NoResponse
    /\ thrown' \in ErrorInputs
    /\ UNCHANGED <<jobs, used, now, creator, born, deleted, header, inflight>>

SpecError == Init /\ [][InitError \/ HandleError \/ NextError]_vars

----------------------------------------------------------------------------
\* Properties

\* the job the request being answered names was, before the request, a
\* stored job of the caller
OwnerRequest == /\ IsObjectId(resp'.id)
                /\ jobs[resp'.id] # NoJob
                /\ jobs[resp'.id].createdBy = resp'.user

\* the elements of a sequence
Range(s) == {s[k] : k \in 1..Len(s)}

\* C1: a user's get-one and delete against the id of a job another user
\* created end in 404, an update against it does not succeed, and no list
\* response contains a job another user created.
C1_Isolation ==
    /\ (resp.op \in {"get", "update", "delete"} /\ IsObjectId(resp.id)
            /\ creator[resp.id] \notin {NoUser, resp.user})
        => /\ resp.statusCode # OK
           /\ resp.op # "update" => resp.statusCode = NOT_FOUND
    /\ resp.op = "list" => \A v \in Range(resp.out) : creator[v.id] = resp.user

\* C2: a stored job's owner never changes after creation.
C2_OwnerNeverChanges ==
    [][\A i \in JobIds :
          (jobs[i] # NoJob /\ jobs'[i] # NoJob) => jobs'[i].createdBy = jobs[i].createdBy]_vars

\* C3: whatever the payload, every job a successful create persists and
\* returns has createdBy equal to the caller.
C3_CreateStampsCaller ==
    (resp.op = "create" /\ resp.statusCode = OK) =>
        \A v \in Range(resp.out) :
            v.createdBy = resp.user /\ jobs[v.id].createdBy = resp.user

\* C4: list returns exactly the caller's stored jobs, numOfJobs is their
\* number, and they appear in the order in which they were created.
C4_ListInCreationOrder ==
    resp.op = "list" =>
        /\ {v.id : v \in Range(resp.out)}
              = {i \in JobIds : jobs[i] # NoJob /\ jobs[i].createdBy = resp.user}
        /\ \A v \in Range(resp.out) : v = JobView(v.id, jobs[v.id])
        /\ resp.numOfJobs = Len(resp.out)
        /\ \A k, l \in 1..Len(resp.out) :
              k < l => /\ resp.out[k].id # resp.out[l].id
                       /\ born[resp.out[k].id] <= born[resp.out[l].id]

\* C5: an owner's update with a status outside the enum is answered 400 and
\* changes nothing; an owner's update without a status is answered 200 and
\* keeps the status.
C5_AsStated ==
    [][(resp'.op = "update" /\ OwnerRequest) =>
          LET o == resp'.body.docs[1]
          IN  /\ o.status \notin StatusEnum \cup {Absent}
                    => resp'.statusCode = BAD_REQUEST /\ jobs' = jobs
              /\ o.status = Absent
                    => /\ resp'.statusCode = OK
                       /\ jobs'[resp'.id].status = jobs[resp'.id].status]_vars

\* C6: a create request missing role or company is answered 400 and stores
\* nothing; when a JSON object lacks both, the message holds both fields'
\* validation messages with ", " between them.
C6_MissingFieldsRejected ==
    [][(resp'.op = "create"
            /\ \E d \in Range(resp'.body.docs) : d.role = Absent \/ d.company = Absent)
        => /\ resp'.statusCode = BAD_REQUEST
           /\ jobs' = jobs
           /\ (~resp'.body.isArray /\ resp'.body.docs[1].role = Absent
                    /\ resp'.body.docs[1].company = Absent)
                => \E k \in 1..Len(resp'.msg) - 2 :
                      /\ resp'.msg[k] = "Please provide a role"
                      /\ resp'.msg[k + 1] = ", "
                      /\ resp'.msg[k + 2] = "Please enter a company name"]_vars

\* C7: a get-one, update or delete with a malformed :id is answered 404 with
\* a message naming the value, and the store is unchanged.
C7_MalformedIdNotFound ==
    [][(resp'.op \in {"get", "update", "delete"} /\ ~IsObjectId(resp'.id))
        => /\ resp'.statusCode = NOT_FOUND
           /\ resp'.msg = <<"No job found with an id of ", ToString(resp'.id)>>
           /\ jobs' = jobs]_vars

\* C7 witness: an update with a malformed :id and a body that would not
\* validate was answered 404 while a job is stored.
C7_Witness ==
    /\ resp.op = "update" /\ resp.id = MalformedId
    /\ resp.body.docs[1].status = "bogus"
    /\ resp.statusCode = NOT_FOUND
    /\ \E i \in JobIds : jobs[i] # NoJob

\* C8: once a delete has answered 200 for an id, every later get-one and
\* delete of it is answered 404, no later update of it succeeds, no later
\* list contains it and no job with that id is ever stored again.
C8_DeleteIsPermanent ==
    [][/\ (resp'.op \in {"get", "update", "delete"} /\ resp'.id \in deleted)
            => /\ resp'.statusCode # OK
               /\ resp'.op # "update" => resp'.statusCode = NOT_FOUND
       /\ resp'.op = "list" => \A v \in Range(resp'.out) : v.id \notin deleted
       /\ \A i \in deleted : jobs'[i] = NoJob]_vars

\* C9: an error that is no duplicate-key, validation, cast or domain error is
\* answered 500 with the generic message, never with its own message.
C9_InternalErrorIsGeneric ==
    (resp.op = "error" /\ thrown.statusCode = 0 /\ thrown.code # DuplicateKeyCode
        /\ thrown.name \notin {"ValidationError", "CastError"})
    => resp.statusCode = INTERNAL_SERVER_ERROR /\ resp.msg = GenericMsg

JobRequest == resp'.op \in {"list", "get", "create", "update", "delete"}

\* C11: on each of the five job routes a request whose bearer token is
\* absent, malformed, invalid or expired is answered 401, no handler runs
\* for it (no caller identity is attached, nothing of the store changes),
\* and every request a handler answers carries the identity of a valid,
\* unexpired token.
C11_GateBeforeHandlers ==
    [][JobRequest =>
          LET h == header'
              absent == h.scheme = "none"
              malformed == h.scheme # "Bearer" \/ h.token.signature = "garbage"
              invalid == h.token.signature # "valid"
              expired == h.token.exp <= now
              rejected == absent \/ malformed \/ invalid \/ expired
          IN  /\ rejected => /\ resp'.statusCode = UNAUTHORIZED
                              /\ resp'.user = NoUser
                              /\ resp'.out = << >>
                              /\ UNCHANGED <<jobs, used, now, creator, born, deleted>>
              /\ ~rejected => /\ resp'.user \in Users
                               /\ resp'.user = h.token.userId
                               /\ resp'.statusCode # UNAUTHORIZED]_vars

\* C11 witness: the owner's delete of a stored job, sent with a token that
\* was valid when the job was created and has expired since, was answered
\* 401 and the job is still stored.
C11_Witness ==
    /\ resp.op = "delete" /\ resp.statusCode = UNAUTHORIZED
    /\ header.scheme = "Bearer" /\ header.token.signature = "valid"
    /\ header.token.exp = StartTime + 1
    /\ IsObjectId(resp.id) /\ jobs[resp.id] # NoJob
    /\ jobs[resp.id].createdBy = header.token.userId

\* what a caller observes of a response: the status, the message, the job
Observed(r) == <<r.statusCode, r.msg, r.out>>

\* the collections that differ from store only in the jobs of users other
\* than u: each of those is absent, as it is, or another job of another user
OtherRuns(store, u) ==
    {s \in [JobIds -> {NoJob} \cup {store[i] : i \in JobIds}
                          \cup {ApplyDefaults([PlainJob EXCEPT !.createdBy = v], StartTime)
                                    : v \in Users \ {u}}] :
        \A i \in JobIds : IF MatchesIn(store, i, u) THEN s[i] = store[i]
                                                  ELSE ~MatchesIn(s, i, u)}

\* what the request being answered is answered in a run whose collection is store
AnswerIn(store, r) ==
    IF r.op = "get" THEN getJobAnswer(store, r.user, r.id)
    ELSE IF r.op = "update" THEN updateJobAnswer(store, r.user, r.id, r.body)
    ELSE deleteJobAnswer(store, r.user, r.id)

\* C12: a get-one, update or delete of a well-formed id that belongs to
\* another user's job is answered as the same request is answered in every
\* run that differs only in other users' jobs, the run without that job
\* among them.
C12_ForeignLikeAbsent ==
    [][(/\ resp'.op \in {"get", "update", "delete"}
        /\ IsObjectId(resp'.id)
        /\ jobs[resp'.id] # NoJob
        /\ jobs[resp'.id].createdBy # resp'.user)
        => /\ [jobs EXCEPT ![resp'.id] = NoJob] \in OtherRuns(jobs, resp'.user)
           /\ \A s \in OtherRuns(jobs, resp'.user) :
                 Observed(resp') = Observed(AnswerIn(s, resp'))]_vars

\* C12 witness: a get-one of another user's stored job was answered 404
\* with the message of a job that does not exist.
C12_Witness ==
    /\ resp.op = "get" /\ IsObjectId(resp.id)
    /\ jobs[resp.id] # NoJob /\ jobs[resp.id].createdBy # resp.user
    /\ resp.statusCode = NOT_FOUND
    /\ resp.msg = <<"No job with id ", ToString(resp.id), " was found">>

\* the requests of operation op on job id that have been answered
Answered(op, id) ==
    {p \in Procs : inflight[p].pc = "done" /\ inflight[p].op = op /\ inflight[p].id = id}

\* C13: of the deletes of one job handled at once at most one is answered
\* 200 and the others 404; an update answered 200 was executed before the
\* delete that was answered 200; and once a delete has been answered 200
\* the job is absent, whatever updates were executed after it.
C13_SerialUpdateDelete ==
    \A id \in JobIds :
        LET gone == {p \in Answered("delete", id) : inflight[p].answer.statusCode = OK}
        IN  /\ Cardinality(gone) <= 1
            /\ \A p \in Answered("delete", id) \ gone :
                    inflight[p].answer.statusCode = NOT_FOUND
            /\ \A p \in Answered("update", id), q \in gone :
                    inflight[p].answer.statusCode = OK => inflight[p].at < inflight[q].at
            /\ gone # {} => jobs[id] = NoJob

\* C13 witness: two deletes and an update of one job by its owner, handled
\* at once, have all been answered: the update and one delete with 200, the
\* other delete with 404, and the update's command was received after the
\* successful delete's.
C13_Witness ==
    \E id \in JobIds, u \in Users :
        \E p, q, r \in Procs :
            /\ \A x \in {p, q, r} : inflight[x].pc = "done" /\ inflight[x].id = id
                                        /\ inflight[x].user = u
            /\ inflight[p].op = "delete" /\ inflight[p].answer.statusCode = OK
            /\ inflight[q].op = "delete" /\ inflight[q].answer.statusCode = NOT_FOUND
            /\ inflight[r].op = "update" /\ inflight[r].answer.statusCode = OK
            /\ p < r
            /\ jobs[id] = NoJob

\* C14: every stored job has a status of the enum, a role of 1 to 100
\* characters, a company of 1 to 50 characters and a user as its owner,
\* after accepted and rejected requests alike; and a job whose create
\* request carried no status is stored as pending.
C14_StoredJobsValid ==
    /\ \A i \in JobIds :
          jobs[i] # NoJob =>
              /\ jobs[i].status \in StatusEnum
              /\ jobs[i].role \notin {Absent, Null, ""}
              /\ Len(jobs[i].role) <= RoleMaxLength
              /\ jobs[i].company \notin {Absent, Null, ""}
              /\ Len(jobs[i].company) <= CompanyMaxLength
              /\ jobs[i].createdBy \in Users
    /\ (resp.op = "create" /\ resp.statusCode = OK) =>
          \A k \in 1..Len(resp.out) :
              resp.body.docs[k].status = Absent => resp.out[k].status = StatusDefault

====
